---- MODULE Spec2Model ----
(***************************************************************************)
(* grobber: the race selector get_first, the stream ranking of             *)
(* Episode.stream, the validation of a Stream (working,                    *)
(* working_external_self), the dirty flags of Anime, Episode, Stream, the  *)
(* episode map of Anime (episode_count, episodes, get), the                *)
(* serialise_special / deserialise_special hooks, and the request          *)
(* handlers of query.py.                                                   *)
(***************************************************************************)
EXTENDS Integers, Sequences, FiniteSets, TLC

\* ---------------------------------------------------------------- bounds
MaxStreams == 3
MaxPriority == 2
NumCallers == 2
NumEpisodes == 2
NumStreamsOf == 2
MaxEpisodes == 2
MaxCalls == 3
MaxMade == 3
MaxSer == 2
MaxFound == 2
MaxFeed == 5
MaxCertainty == 2

\* get_first's "return None" and an Episode without a working stream
None == 0

VARIABLES
    prio,        \* Episode._streams, as the PRIORITY of each candidate, sorted descending
    ext,         \* Stream._external: memoized slot of each candidate
    work,        \* Stream._working: memoized slot of each candidate
    orphanExt,   \* candidates with a validation of an aborted race still awaiting external
    task,        \* the validation task of each candidate in the running race
    result,      \* the outcome of each completed validation task
    cancelSig,   \* tasks on which get_first called cancel()
    coros,       \* get_first's local `coros`: the computations still waited on
    pc,          \* position of the body of Episode.stream
    slot,        \* Episode._stream: memoized slot
    caller,      \* the concurrent accessors of Episode.stream
    got,         \* what each accessor obtained
    examined,    \* candidates whose result the predicate was evaluated on, this race
    dropped,     \* candidates removed from `coros` without evaluating the predicate
    gf,          \* the last step get_first took
    workStarts,  \* how often the body of Stream.working was started, per candidate
    streamStarts,\* how often the body of Episode.stream was started
    streamFails, \* how often the body of Episode.stream raised
    lateWrite,   \* candidates whose memoized slot was assigned after cancel() was called
    linksOut,    \* whether `await self.links` inside Stream.working gave a non-empty list
    aDirty,      \* Anime._dirty
    hasEpisodes, \* whether the Anime has its _episodes
    eDirty,      \* Episode._dirty of each Episode of Anime._episodes
    hasStreams,  \* whether each Episode has its _streams
    sDirty,      \* Stream.dirty of each Stream of each Episode._streams
    lastOp,      \* the last dirty setter that ran, and the value it was given
    site,        \* how many episodes the site lists now: the length get_episodes returns
    cnt,         \* Anime._episode_count: memoized slot
    mapSet,      \* hasattr(anime, "_episodes")
    epMap,       \* Anime._episodes: the Episode object stored for each index, 0 when absent
    acc,         \* the concurrent accessors of episode_count, episodes and get
    made,        \* how many Episode-creating calls were started; names the objects made
    enumCalls,   \* how often get_episodes was invoked
    lastGet,     \* the last Anime.get that finished: its index, outcome, count at that time
    serOp,       \* the last run of a serialise_special / deserialise_special hook
    req,         \* the request a handler of query.py works on: handler and request.args
    qpc,         \* position of that handler
    lookups,     \* how many source lookups and searches the handler started
    query,       \* what AnimeQuery.build gave the handler
    qout,        \* what the handler returned or raised
    cands,       \* the list of streams or sources the handler awaited
    feed,        \* the results the source search yielded, each as its certainty
    pulled,      \* how many results search_anime took from the source search
    pool,        \* results_pool of search_anime, as positions in the feed
    results      \* `results` of search_anime

selVars == <<prio, ext, work, orphanExt, task, result, cancelSig, coros, pc, slot,
             caller, got, examined, dropped, gf, workStarts, streamStarts,
             streamFails, lateWrite, linksOut>>

dirtyVars == <<aDirty, hasEpisodes, eDirty, hasStreams, sDirty, lastOp>>

showVars == <<site, cnt, mapSet, epMap, acc, made, enumCalls, lastGet>>

serVars == <<serOp>>

qryVars == <<req, query, qpc, lookups, qout, cands, feed, pulled, pool, results>>

vars == <<selVars, dirtyVars, showVars, serVars, qryVars>>

\* what the selection of a stream leaves alone, and what the dirty setters leave alone
notSel == <<dirtyVars, showVars, serVars, qryVars>>
notDirty == <<selVars, showVars, serVars, qryVars>>
notShow == <<selVars, dirtyVars, serVars, qryVars>>
notSer == <<selVars, dirtyVars, showVars, qryVars>>
notQry == <<selVars, dirtyVars, showVars, serVars>>

Streams == DOMAIN prio
Callers == 1..NumCallers
Episodes == 1..NumEpisodes
StreamsOf == 1..NumStreamsOf
Indices == 0..(MaxEpisodes - 1)

\* ------------------------------------------------------------ pure parts

\* the list is kept sorted by descending PRIORITY (streams.sort(..., reverse=True))
Sorted(seq) == \A i \in 1..(Len(seq) - 1) : seq[i] >= seq[i + 1]

PrioSeqs == UNION {[1..n -> 1..MaxPriority] : n \in 0..MaxStreams}

\* Stream.working without its except clauses: an error of links leaves working
workingUncaught(links) ==
    IF links = "nonempty" THEN "true" ELSE IF links = "empty" THEN "false" ELSE links

\* Stream.working: len(await self.links) > 0, False on CancelledError or any Exception
working(links) ==
    CASE links = "nonempty" -> "true"
      [] links = "empty" -> "false"
      [] links = "cancelled" -> "false"
      [] links = "raise" -> "false"

\* what `await self.links` gave: a list with elements, or nothing of the kind (an
\* empty list, an exception, a cancellation)
Gave(links) == IF links = "nonempty" THEN "nonempty" ELSE "nothing"

\* Stream.working_external_self: self if external and working, else None
working_external_self(e, w) ==
    IF e = "true" /\ w = "true" THEN "self" ELSE "none"

\* the default predicate of get_first: bool(result)
predicate(r) == r = "self"

\* a memoized attribute that starts its computation again while one is pending
MemoStartsPending(s) == s \in {"unset", "pending"}

\* a memoized attribute read: starts the computation only from the unset slot
MemoStarts(s) == s = "unset"
MemoAfterAccess(s) == IF s = "unset" THEN "pending" ELSE s

\* where a validation stands once it has reached `await self.working`
AtWorking(w) ==
    CASE w = "unset" -> [task |-> "work_own", result |-> "-"]
      [] w = "pending" -> [task |-> "work_wait", result |-> "-"]
      [] OTHER -> [task |-> "done", result |-> working_external_self("true", w)]

\* where a validation stands after its first step, from the two slots
AtStart(e, w) ==
    CASE e = "unset" -> [task |-> "ext_own", result |-> "-"]
      [] e = "pending" -> [task |-> "ext_wait", result |-> "-"]
      [] e = "true" -> AtWorking(w)
      [] OTHER -> [task |-> "done", result |-> working_external_self(e, w)]

\* no grouping: the candidates of priority p and every candidate below
GroupAndBelow(p) == {s \in Streams : prio[s] <= p}

\* groupby(all_streams, PRIORITY): the candidates of one priority
Group(p) == {s \in Streams : prio[s] = p}

\* the priorities of the groups after the group of priority p, high to low
LowerPriorities(p) == {prio[s] : s \in {x \in Streams : prio[x] < p}}

Max(S) == CHOOSE x \in S : \A y \in S : y <= x

Done(S) == {s \in S : task[s] = "done"}

\* ---------------------------------------------------------------- get_first

\* an asyncio.wait that hands back every computation it was given as pending
StillPendingAll(cs) == cs

\* line 41: the computations asyncio.wait hands back as `coros` (still pending)
StillPending(cs) == cs \ Done(cs)

\* cancelling the completed computations instead of the pending ones
ToCancelDone(done, pending) == done

\* lines 48-49: the computations get_first cancels on a satisfying result
ToCancel(done, pending) == pending

\* line 43: the results get_first looks at in one wait step, next(iter(done))
Looked(done) == {{t} : t \in done}

\* ------------------------------------------------------------ Episode.stream

\* get_first([stream.working_external_self for stream in streams]) over the group of
\* priority p: asyncio.wait schedules every computation of the list, each takes its
\* first step (reads external, and working where external is already known true)
StartRace(p) ==
    LET G == Group(p)
        at(s) == AtStart(ext[s], work[s])
    IN  /\ task' = [s \in Streams |-> IF s \in G THEN at(s).task ELSE task[s]]
        /\ result' = [s \in Streams |-> IF s \in G THEN at(s).result ELSE result[s]]
        /\ ext' = [s \in Streams |-> IF s \in G THEN MemoAfterAccess(ext[s]) ELSE ext[s]]
        /\ work' = [s \in Streams |->
                      IF s \in G /\ ext[s] = "true" THEN MemoAfterAccess(work[s]) ELSE work[s]]
        /\ workStarts' = [s \in Streams |->
                      IF s \in G /\ ext[s] = "true" /\ MemoStarts(work[s])
                      THEN workStarts[s] + 1 ELSE workStarts[s]]
        /\ coros' = G

\* the body of Episode.stream returns v: the memoized slot resolves, every accessor
\* awaiting it (and `me`, the accessor that ran it to completion at once) obtains v
Return(v, me) ==
    /\ slot' = [st |-> "resolved", val |-> v]
    /\ caller' = [c \in Callers |->
                    IF caller[c] = "waiting" \/ c \in me THEN "returned" ELSE caller[c]]
    /\ got' = [c \in Callers |-> IF caller[c] = "waiting" \/ c \in me THEN v ELSE got[c]]
    /\ pc' = "idle"

\* an accessor reads Episode.stream (the accessors are alike: they arrive in the order
\* of their numbers)
CallStream(c) ==
    /\ UNCHANGED notSel
    /\ caller[c] = "idle"
    /\ \A d \in Callers : d < c => caller[d] # "idle"
    /\ \/ /\ slot.st = "resolved"
          /\ caller' = [caller EXCEPT ![c] = "returned"]
          /\ got' = [got EXCEPT ![c] = slot.val]
          /\ UNCHANGED <<prio, ext, work, orphanExt, task, result, cancelSig, coros, pc,
                         slot, examined, dropped, gf, workStarts, streamStarts,
                         streamFails, lateWrite, linksOut>>
       \/ /\ slot.st = "pending"
          /\ caller' = [caller EXCEPT ![c] = "waiting"]
          /\ UNCHANGED <<prio, ext, work, orphanExt, task, result, cancelSig, coros, pc,
                         slot, got, examined, dropped, gf, workStarts, streamStarts,
                         streamFails, lateWrite, linksOut>>
       \/ /\ MemoStarts(slot.st)
          /\ streamStarts' = streamStarts + 1
          /\ examined' = {}
          /\ dropped' = {}
          /\ gf' = [kind |-> "start", t |-> None, pending |-> {}]
          /\ IF Streams = {}
             THEN /\ Return(None, {c})
                  /\ UNCHANGED <<ext, work, task, result, coros, workStarts>>
             ELSE /\ StartRace(Max({prio[s] : s \in Streams}))
                  /\ slot' = [st |-> "pending", val |-> None]
                  /\ caller' = [caller EXCEPT ![c] = "waiting"]
                  /\ pc' = "racing"
                  /\ UNCHANGED got
          /\ UNCHANGED <<prio, orphanExt, cancelSig, streamFails, lateWrite, linksOut>>

\* one iteration of get_first's loop, and what Episode.stream does with its return:
\* asyncio.wait returned with `done` non-empty; t is next(iter(done))
GetFirstStep(t) ==
    /\ UNCHANGED notSel
    /\ pc = "racing"
    /\ LET done == Done(coros)
           pending == StillPending(coros)
           p == prio[t]
       IN
       /\ {t} \in Looked(done)
       /\ \/ \* .result() re-raises the computation's exception: Episode.stream raises
             /\ result[t] = "exc"
             /\ gf' = [kind |-> "raise", t |-> t, pending |-> pending]
             /\ slot' = [st |-> "unset", val |-> None]
             /\ caller' = [c \in Callers |->
                             IF caller[c] = "waiting" THEN "raised" ELSE caller[c]]
             /\ pc' = "idle"
             /\ streamFails' = streamFails + 1
             /\ orphanExt' = orphanExt \cup
                                {s \in Streams : task[s] \in {"ext_own", "ext_wait"}}
             /\ task' = [s \in Streams |-> "none"]
             /\ result' = [s \in Streams |-> "-"]
             /\ coros' = {}
             /\ examined' = examined
             /\ dropped' = dropped
             /\ UNCHANGED <<prio, ext, work, cancelSig, got, workStarts, streamStarts,
                            lateWrite, linksOut>>
          \/ \* the predicate holds: cancel the rest, return the result
             /\ result[t] # "exc"
             /\ predicate(result[t])
             /\ gf' = [kind |-> "win", t |-> t, pending |-> pending]
             /\ cancelSig' = cancelSig \cup ToCancel(done, pending)
             /\ coros' = pending
             /\ examined' = examined \cup {t}
             /\ dropped' = dropped \cup (done \ {t})
             /\ Return(t, {})
             /\ UNCHANGED <<prio, ext, work, orphanExt, task, result, workStarts,
                            streamStarts, streamFails, lateWrite, linksOut>>
          \/ \* the predicate fails and computations remain: wait again
             /\ result[t] # "exc"
             /\ ~predicate(result[t])
             /\ pending # {}
             /\ gf' = [kind |-> "discard", t |-> t, pending |-> pending]
             /\ coros' = pending
             /\ examined' = examined \cup {t}
             /\ dropped' = dropped \cup (done \ {t})
             /\ UNCHANGED <<prio, ext, work, orphanExt, task, result, cancelSig, pc, slot,
                            caller, got, workStarts, streamStarts, streamFails, lateWrite, linksOut>>
          \/ \* the predicate fails and nothing remains: get_first returns None and
             \* Episode.stream goes on with the next group
             /\ result[t] # "exc"
             /\ ~predicate(result[t])
             /\ pending = {}
             /\ LowerPriorities(p) # {}
             /\ gf' = [kind |-> "discard", t |-> t, pending |-> pending]
             /\ examined' = examined \cup {t}
             /\ dropped' = dropped \cup (done \ {t})
             /\ StartRace(Max(LowerPriorities(p)))
             /\ UNCHANGED <<prio, orphanExt, cancelSig, pc, slot, caller, got,
                            streamStarts, streamFails, lateWrite, linksOut>>
          \/ \* ... or, after the last group, returns None itself
             /\ result[t] # "exc"
             /\ ~predicate(result[t])
             /\ pending = {}
             /\ LowerPriorities(p) = {}
             /\ gf' = [kind |-> "discard", t |-> t, pending |-> pending]
             /\ coros' = pending
             /\ examined' = examined \cup {t}
             /\ dropped' = dropped \cup (done \ {t})
             /\ Return(None, {})
             /\ UNCHANGED <<prio, ext, work, orphanExt, task, result, cancelSig,
                            workStarts, streamStarts, streamFails, lateWrite, linksOut>>

\* ------------------------------------------------------- Stream validation

\* `await self.external` of candidate s completes with out. The validation that owns
\* the computation goes on at once (an abandoned one of an aborted race first), a
\* validation awaiting the same computation obtains the same outcome
ExternalDone(s, out) ==
    /\ UNCHANGED notSel
    /\ ext[s] = "pending"
    /\ ~(task[s] = "ext_own" /\ s \in cancelSig)
    /\ LET live == task[s] \in {"ext_own", "ext_wait"} /\ s \notin cancelSig
           orphan == s \in orphanExt
           seen == IF orphan THEN MemoAfterAccess(work[s]) ELSE work[s]
           at == CASE out = "raise" -> [task |-> "done", result |-> "exc"]
                   [] out = "true" -> AtWorking(seen)
                   [] OTHER -> [task |-> "done",
                                result |-> working_external_self(out, work[s])]
       IN  /\ ext' = [ext EXCEPT ![s] = IF out = "raise" THEN "unset" ELSE out]
           /\ work' = [work EXCEPT ![s] =
                         IF out = "true" THEN MemoAfterAccess(work[s]) ELSE work[s]]
           /\ workStarts' = [workStarts EXCEPT ![s] =
                         IF out = "true" /\ MemoStarts(work[s]) THEN @ + 1 ELSE @]
           /\ task' = IF live THEN [task EXCEPT ![s] = at.task] ELSE task
           /\ result' = IF live THEN [result EXCEPT ![s] = at.result] ELSE result
           /\ orphanExt' = orphanExt \ {s}
    /\ UNCHANGED <<prio, cancelSig, coros, pc, slot, caller, got, examined, dropped, gf,
                   streamStarts, streamFails, lateWrite, linksOut>>

\* `await self.links` inside Stream.working of candidate s completes with links:
\* working resolves, the memoized slot is assigned, the validation completes
WorkingDone(s, links) ==
    /\ UNCHANGED notSel
    /\ work[s] = "pending"
    /\ ~(task[s] = "work_own" /\ s \in cancelSig)
    /\ LET live == task[s] \in {"work_own", "work_wait"} /\ s \notin cancelSig
           w == working(links)
       IN  /\ work' = [work EXCEPT ![s] = w]
           /\ linksOut' = [linksOut EXCEPT ![s] = Gave(links)]
           /\ task' = IF live THEN [task EXCEPT ![s] = "done"] ELSE task
           /\ result' = IF live
                        THEN [result EXCEPT ![s] = working_external_self("true", w)]
                        ELSE result
    /\ UNCHANGED <<prio, ext, orphanExt, cancelSig, coros, pc, slot, caller, got, examined,
                   dropped, gf, workStarts, streamStarts, streamFails, lateWrite>>

\* the event loop throws CancelledError into a validation get_first cancelled, at the
\* await it is suspended in
CancelDeliver(s) ==
    /\ UNCHANGED notSel
    /\ s \in cancelSig
    /\ task[s] \in {"ext_own", "ext_wait", "work_own", "work_wait"}
    /\ \/ \* in `await self.external`: nothing catches, the task ends cancelled
          /\ task[s] \in {"ext_own", "ext_wait"}
          /\ ext' = [ext EXCEPT ![s] = IF task[s] = "ext_own" THEN "unset" ELSE @]
          /\ task' = [task EXCEPT ![s] = "done"]
          /\ result' = [result EXCEPT ![s] = "cancelled"]
          /\ UNCHANGED <<work, lateWrite, linksOut>>
       \/ \* awaiting a Stream.working another validation runs: the task ends cancelled
          /\ task[s] = "work_wait"
          /\ task' = [task EXCEPT ![s] = "done"]
          /\ result' = [result EXCEPT ![s] = "cancelled"]
          /\ UNCHANGED <<ext, work, lateWrite, linksOut>>
       \/ \* inside its own Stream.working: `except asyncio.CancelledError: return False`,
          \* the value is memoized and working_external_self returns None
          /\ task[s] = "work_own"
          /\ work' = [work EXCEPT ![s] = working("cancelled")]
          /\ task' = [task EXCEPT ![s] = "done"]
          /\ result' = [result EXCEPT ![s] =
                          working_external_self("true", working("cancelled"))]
          /\ lateWrite' = lateWrite \cup {s}
          /\ linksOut' = [linksOut EXCEPT ![s] = Gave("cancelled")]
          /\ UNCHANGED ext
    /\ UNCHANGED <<prio, orphanExt, cancelSig, coros, pc, slot, caller, got, examined,
                   dropped, gf, workStarts, streamStarts, streamFails>>

\* ------------------------------------------------------------ specification

\* the dirty flags of a graph nobody touches
DirtyIdle ==
    /\ aDirty = FALSE
    /\ hasEpisodes = FALSE
    /\ eDirty = [e \in Episodes |-> FALSE]
    /\ hasStreams = [e \in Episodes |-> FALSE]
    /\ sDirty = [e \in Episodes |-> [i \in StreamsOf |-> FALSE]]
    /\ lastOp = [op |-> "none", v |-> FALSE]

\* an accessor of the Anime that is not inside a call
IdleAcc == [pc |-> "idle", op |-> "-", index |-> 0, owner |-> FALSE, i |-> 0, n |-> 0, obj |-> 0]

\* an Anime nobody has asked for its episodes yet, on a site without episodes
ShowIdle ==
    /\ site = 0
    /\ cnt = [st |-> "unset", val |-> 0]
    /\ mapSet = FALSE
    /\ epMap = [i \in Indices |-> 0]
    /\ acc = [c \in Callers |-> IdleAcc]
    /\ made = 0
    /\ enumCalls = 0
    /\ lastGet = [index |-> 0, res |-> "none", obj |-> 0, count |-> -1]

\* what a call gave: a value, or the exception it raised
Returned(v) == [ok |-> TRUE, val |-> v, exc |-> "-"]
Raised(e) == [ok |-> FALSE, val |-> <<>>, exc |-> e]

\* no hook has run; one run of one hook is looked at
SerIdle ==
    serOp = [op |-> "none", cls |-> "-", key |-> "-", arg |-> <<>>,
             mid |-> Returned(<<>>), out |-> Returned(<<>>)]

\* no request has come in; one request is looked at
QryIdle ==
    /\ req = [h |-> "-", args |-> <<>>]
    /\ query = [ok |-> FALSE, type |-> "unbuilt", by |-> "", language |-> "None",
                dubbed |-> "None"]
    /\ qpc = "idle"
    /\ lookups = 0
    /\ qout = Returned(<<>>)
    /\ cands = <<>>
    /\ feed = <<>>
    /\ pulled = 0
    /\ pool = <<>>
    /\ results = <<>>

\* an Episode whose candidates nobody has asked to select from yet
SelInit ==
    /\ prio \in {q \in PrioSeqs : Sorted(q)}
    /\ ext = [s \in DOMAIN prio |-> "unset"]
    /\ work = [s \in DOMAIN prio |-> "unset"]
    /\ orphanExt = {}
    /\ task = [s \in DOMAIN prio |-> "none"]
    /\ result = [s \in DOMAIN prio |-> "-"]
    /\ cancelSig = {}
    /\ coros = {}
    /\ pc = "idle"
    /\ slot = [st |-> "unset", val |-> None]
    /\ caller = [c \in Callers |-> "idle"]
    /\ got = [c \in Callers |-> None]
    /\ examined = {}
    /\ dropped = {}
    /\ gf = [kind |-> "start", t |-> None, pending |-> {}]
    /\ workStarts = [s \in DOMAIN prio |-> 0]
    /\ streamStarts = 0
    /\ streamFails = 0
    /\ lateWrite = {}
    /\ linksOut = [s \in DOMAIN prio |-> "-"]

Init == DirtyIdle /\ SelInit /\ ShowIdle /\ SerIdle /\ QryIdle

Next ==
    \/ \E c \in Callers : CallStream(c)
    \/ \E t \in Streams : GetFirstStep(t)
    \/ \E s \in Streams : \E out \in {"true", "false", "raise"} : ExternalDone(s, out)
    \/ \E s \in Streams : \E links \in {"nonempty", "empty", "raise"} : WorkingDone(s, links)
    \/ \E s \in Streams : CancelDeliver(s)

Spec == Init /\ [][Next]_vars

\* one reading of Episode.stream: a single accessor runs its body, and further
\* accessors would only await the same body
NextLive ==
    \/ CallStream(1)
    \/ \E t \in Streams : GetFirstStep(t)
    \/ \E s \in Streams : \E out \in {"true", "false", "raise"} : ExternalDone(s, out)
    \/ \E s \in Streams : \E links \in {"nonempty", "empty", "raise"} : WorkingDone(s, links)
    \/ \E s \in Streams : CancelDeliver(s)

\* every computation handed to get_first completes at some time (its awaits come
\* back, a cancellation is delivered), and the event loop resumes get_first once
\* asyncio.wait has something done; nobody is bound to read Episode.stream
Fairness ==
    /\ WF_vars(\E s \in Streams : \E out \in {"true", "false", "raise"} : ExternalDone(s, out))
    /\ WF_vars(\E s \in Streams : \E links \in {"nonempty", "empty", "raise"} :
                  WorkingDone(s, links))
    /\ WF_vars(\E s \in Streams : CancelDeliver(s))
    /\ WF_vars(\E t \in Streams : GetFirstStep(t))

SpecLive == Init /\ [][NextLive]_vars /\ Fairness

\* -------------------------------------------------------------- dirty flags

\* Stream.dirty: the flag of the i-th Stream of Episode e
StreamDirty(e, i) == sDirty[e][i]

\* an Episode.dirty that reads the Episode's own flag alone
EpisodeDirtyOwn(e) == eDirty[e]

\* Episode.dirty (getter)
EpisodeDirty(e) ==
    IF eDirty[e]
    THEN TRUE
    ELSE IF hasStreams[e]
         THEN \E i \in StreamsOf : StreamDirty(e, i)
         ELSE FALSE

\* Anime.dirty (getter)
AnimeDirty ==
    IF aDirty
    THEN TRUE
    ELSE IF hasEpisodes
         THEN \E e \in Episodes : EpisodeDirty(e)
         ELSE FALSE

\* an Episode.dirty setter that leaves the Streams alone
StreamFlagsKept(e, v) == sDirty[e]

\* Episode.dirty (setter), lines 213-215: the flags of the Streams of e afterwards
StreamFlagsAfter(e, v) ==
    IF hasStreams[e] THEN [i \in StreamsOf |-> v] ELSE sDirty[e]

\* Anime.dirty (setter), lines 353-355: the Episodes whose setter it calls
EpisodesSet == IF hasEpisodes THEN Episodes ELSE {}

\* stream.dirty = v
SetStreamDirty(e, i, v) ==
    /\ hasEpisodes
    /\ hasStreams[e]
    /\ sDirty' = [sDirty EXCEPT ![e][i] = v]
    /\ lastOp' = [op |-> "stream", v |-> v]
    /\ UNCHANGED <<aDirty, hasEpisodes, eDirty, hasStreams>>
    /\ UNCHANGED notDirty

\* episode.dirty = v
SetEpisodeDirty(e, v) ==
    /\ hasEpisodes
    /\ eDirty' = [eDirty EXCEPT ![e] = v]
    /\ sDirty' = [sDirty EXCEPT ![e] = StreamFlagsAfter(e, v)]
    /\ lastOp' = [op |-> "episode", v |-> v]
    /\ UNCHANGED <<aDirty, hasEpisodes, hasStreams>>
    /\ UNCHANGED notDirty

\* anime.dirty = v
SetAnimeDirty(v) ==
    /\ aDirty' = v
    /\ eDirty' = [e \in Episodes |-> IF e \in EpisodesSet THEN v ELSE eDirty[e]]
    /\ sDirty' = [e \in Episodes |->
                    IF e \in EpisodesSet THEN StreamFlagsAfter(e, v) ELSE sDirty[e]]
    /\ lastOp' = [op |-> "anime", v |-> v]
    /\ UNCHANGED <<hasEpisodes, hasStreams>>
    /\ UNCHANGED notDirty

\* Anime.episodes stores the Episodes (self._episodes = dict(enumerate(eps)))
LoadEpisodes(flags) ==
    /\ ~hasEpisodes
    /\ hasEpisodes' = TRUE
    /\ eDirty' = flags
    /\ lastOp' = [op |-> "episodes", v |-> FALSE]
    /\ UNCHANGED <<aDirty, hasStreams, sDirty>>
    /\ UNCHANGED notDirty

\* Episode.streams resolves: the Episode holds its Streams as _streams
LoadStreams(e, flags) ==
    /\ hasEpisodes
    /\ ~hasStreams[e]
    /\ hasStreams' = [hasStreams EXCEPT ![e] = TRUE]
    /\ sDirty' = [sDirty EXCEPT ![e] = flags]
    /\ lastOp' = [op |-> "streams", v |-> FALSE]
    /\ UNCHANGED <<aDirty, hasEpisodes, eDirty>>
    /\ UNCHANGED notDirty

InitDirty == DirtyIdle /\ SelInit /\ prio = <<>> /\ ShowIdle /\ SerIdle /\ QryIdle

NextDirty ==
    \/ \E e \in Episodes : \E i \in StreamsOf : \E v \in BOOLEAN : SetStreamDirty(e, i, v)
    \/ \E e \in Episodes : \E v \in BOOLEAN : SetEpisodeDirty(e, v)
    \/ \E v \in BOOLEAN : SetAnimeDirty(v)
    \/ \E flags \in [Episodes -> BOOLEAN] : LoadEpisodes(flags)
    \/ \E e \in Episodes : \E flags \in [StreamsOf -> BOOLEAN] : LoadStreams(e, flags)

SpecDirty == InitDirty /\ [][NextDirty]_vars

\* ------------------------------------------------- Anime: episodes and get

\* self._episodes.get(index) / `i in self._episodes`: 0 stands for no entry
MapGet(map, index) == IF index \in DOMAIN map THEN map[index] ELSE 0

\* len(self._episodes)
MapLen(map) == Cardinality({i \in DOMAIN map : map[i] # 0})

\* dict(enumerate(eps)) for the `n` Episode objects that call number `obj` made
Enumerated(n, obj) == [i \in Indices |-> IF i < n THEN obj ELSE 0]

\* the value of Anime.episode_count where it is resolved, -1 where it is not
CountOf(cslot) == IF cslot.st = "resolved" THEN cslot.val ELSE -1

\* Anime.get returns or raises: what it gave for which index, under which count
GetReturns(c, index, obj, cslot) ==
    /\ acc' = [acc EXCEPT ![c] = IdleAcc]
    /\ lastGet' = [index |-> index, res |-> IF obj = 0 THEN "raised" ELSE "ep",
                   obj |-> obj, count |-> CountOf(cslot)]
    /\ cnt' = cslot
    /\ UNCHANGED <<made, enumCalls>>

\* `await self.episode_count` at position `at` of accessor c: the memoized value
\* is at hand, or another body computes it, or get_episodes is invoked for it
AwaitCount(c, op, index, at, cslot) ==
    IF cslot.st = "pending"
    THEN /\ acc' = [acc EXCEPT ![c] = [IdleAcc EXCEPT !.pc = at, !.op = op, !.index = index]]
         /\ cnt' = cslot
         /\ UNCHANGED <<made, enumCalls, lastGet>>
    ELSE /\ cslot.st = "unset"
         /\ enumCalls < MaxCalls
         /\ enumCalls' = enumCalls + 1
         /\ cnt' = [st |-> "pending", val |-> 0]
         /\ acc' = [acc EXCEPT ![c] = [IdleAcc EXCEPT !.pc = at, !.op = op, !.index = index,
                                                     !.owner = TRUE]]
         /\ UNCHANGED <<made, lastGet>>

\* Anime.get, lines 414-417, once `await self.episodes` gave the map
GetFinish(c, index, map, cslot) ==
    IF MapGet(map, index) # 0
    THEN GetReturns(c, index, MapGet(map, index), cslot)
    ELSE \* KeyError: raise EpisodeNotFound(index, await self.episode_count)
         IF cslot.st = "resolved"
         THEN GetReturns(c, index, 0, cslot)
         ELSE AwaitCount(c, "get", index, "G_cnt", cslot)

\* `return self._episodes` of Anime.episodes, back in whoever awaited it
EpisodesReturn(c, op, index, map, cslot) ==
    IF op = "get"
    THEN GetFinish(c, index, map, cslot)
    ELSE /\ acc' = [acc EXCEPT ![c] = IdleAcc]
         /\ cnt' = cslot
         /\ UNCHANGED <<made, enumCalls, lastGet>>

\* Anime.episodes, lines 400-402: the loop over range(n) from position `from`,
\* up to the next `await self.get_episode(i)`
FillLoop(c, op, index, map, cslot, n, from) ==
    LET missing == {i \in from..(n - 1) : MapGet(map, i) = 0} IN
    IF missing = {}
    THEN EpisodesReturn(c, op, index, map, cslot)
    ELSE /\ made < MaxMade
         /\ made' = made + 1
         /\ acc' = [acc EXCEPT ![c] =
                      [pc |-> "E_fill", op |-> op, index |-> index, owner |-> FALSE,
                       i |-> CHOOSE i \in missing : \A j \in missing : i <= j,
                       n |-> n, obj |-> made + 1]]
         /\ cnt' = cslot
         /\ UNCHANGED <<enumCalls, lastGet>>

\* Anime.episodes, line 397, once episode_count is at hand
AfterCount(c, op, index, map, cslot) ==
    IF MapLen(map) # cslot.val
    THEN FillLoop(c, op, index, map, cslot, cslot.val, 0)
    ELSE EpisodesReturn(c, op, index, map, cslot)

\* Anime.episodes from its first line up to its first suspension
EpisodesBody(c, op, index) ==
    IF mapSet
    THEN IF cnt.st = "resolved"
         THEN AfterCount(c, op, index, epMap, cnt)
         ELSE AwaitCount(c, op, index, "E_cnt", cnt)
    ELSE \* eps = await self.get_episodes()
         /\ enumCalls < MaxCalls
         /\ made < MaxMade
         /\ enumCalls' = enumCalls + 1
         /\ made' = made + 1
         /\ acc' = [acc EXCEPT ![c] = [IdleAcc EXCEPT !.pc = "E_all", !.op = op,
                                                     !.index = index, !.obj = made + 1]]
         /\ UNCHANGED <<cnt, lastGet>>

\* an accessor reads Anime.episode_count, or awaits Anime.episodes, or calls Anime.get
ShowAccess(c, op, index) ==
    /\ acc[c].pc = "idle"
    /\ \/ /\ op = "episode_count"
          /\ cnt.st # "resolved"
          /\ AwaitCount(c, op, 0, "C_cnt", cnt)
       \/ /\ op = "episodes"
          /\ EpisodesBody(c, op, 0)
       \/ \* lines 410-413: the entry is there
          /\ op = "get"
          /\ mapSet /\ MapGet(epMap, index) # 0
          /\ GetReturns(c, index, MapGet(epMap, index), cnt)
       \/ /\ op = "get"
          /\ ~(mapSet /\ MapGet(epMap, index) # 0)
          /\ EpisodesBody(c, op, index)
    /\ UNCHANGED <<site, mapSet, epMap>>
    /\ UNCHANGED notShow

\* `await self.episode_count` comes back: get_episodes returned to the body that
\* invoked it and its length is memoized, or the value another body memoized is read
CountResume(c) ==
    /\ acc[c].pc \in {"C_cnt", "E_cnt", "G_cnt"}
    /\ acc[c].owner \/ cnt.st = "resolved"
    /\ LET cslot == IF acc[c].owner THEN [st |-> "resolved", val |-> site] ELSE cnt IN
       IF acc[c].pc = "C_cnt"
       THEN /\ acc' = [acc EXCEPT ![c] = IdleAcc]
            /\ cnt' = cslot
            /\ UNCHANGED <<made, enumCalls, lastGet>>
       ELSE IF acc[c].pc = "E_cnt"
            THEN AfterCount(c, acc[c].op, acc[c].index, epMap, cslot)
            ELSE GetReturns(c, acc[c].index, 0, cslot)
    /\ UNCHANGED <<site, mapSet, epMap>>
    /\ UNCHANGED notShow

\* lines 403-405: get_episodes came back and its list becomes the map
AllDone(c) ==
    /\ acc[c].pc = "E_all"
    /\ mapSet' = TRUE
    /\ epMap' = Enumerated(site, acc[c].obj)
    /\ EpisodesReturn(c, acc[c].op, acc[c].index, epMap', cnt)
    /\ UNCHANGED site
    /\ UNCHANGED notShow

\* line 402: get_episode(i) came back and is stored, and the loop goes on
FillDone(c) ==
    /\ acc[c].pc = "E_fill"
    /\ epMap' = [epMap EXCEPT ![acc[c].i] = acc[c].obj]
    /\ FillLoop(c, acc[c].op, acc[c].index, epMap', cnt, acc[c].n, acc[c].i + 1)
    /\ UNCHANGED <<site, mapSet>>
    /\ UNCHANGED notShow

\* the site lists more episodes, or fewer
SiteChange(n) ==
    /\ n # site
    /\ site' = n
    /\ UNCHANGED <<cnt, mapSet, epMap, acc, made, enumCalls, lastGet>>
    /\ UNCHANGED notShow

\* episode_count is a changing attribute: its memoized value is given up for
\* re-validation while no body waits for it
Revalidate ==
    /\ cnt.st = "resolved"
    /\ cnt' = [st |-> "unset", val |-> 0]
    /\ UNCHANGED <<site, mapSet, epMap, acc, made, enumCalls, lastGet>>
    /\ UNCHANGED notShow

InitShow == DirtyIdle /\ SelInit /\ prio = <<>> /\ ShowIdle /\ SerIdle /\ QryIdle

NextShow ==
    \/ \E c \in Callers : \E op \in {"episode_count", "episodes", "get"} :
          \E index \in -1..MaxEpisodes : ShowAccess(c, op, index)
    \/ \E c \in Callers : CountResume(c)
    \/ \E c \in Callers : AllDone(c)
    \/ \E c \in Callers : FillDone(c)
    \/ \E n \in 0..MaxEpisodes : SiteChange(n)
    \/ Revalidate

SpecShow == InitShow /\ [][NextShow]_vars

\* ------------------------------------- serialise_special, deserialise_special

\* None where a Stream is expected
NoStream == [cls |-> <<>>, links |-> "unset", poster |-> "unset"]

\* sys.modules, and the Stream classes the loaded module defines
Loaded == {<<"streams">>}
ClassesOf(m) == IF m = <<"streams">> THEN {"A", "P"} ELSE {}

\* Stream.persist: False, unless a Stream class overrides it (class P does)
persist(stream) == stream.cls = <<"streams", "P">>

\* Streams as they live in an Episode: `_links` and `_poster` unset or resolved
LiveStreams == [cls : {<<"streams", "A">>, <<"streams", "P">>},
                links : {"unset", "empty", "some"},
                poster : {"unset", "none", "url"}]

\* stream.state, and Stream.from_state on a record whose class was found
State(stream) == [hasCls |-> TRUE, cls |-> stream.cls, links |-> stream.links,
                  poster |-> stream.poster]
from_state(data) == [cls |-> data.cls, links |-> data.links, poster |-> data.poster]

\* persisted Stream records, sound or damaged: no "cls" key, a name without a
\* module, a module that is not loaded, a class the module does not define
StreamRecords == [hasCls : BOOLEAN,
                  cls : {<<"streams", "A">>, <<"streams", "P">>, <<"gone", "A">>,
                         <<"streams", "Gone">>, <<"A">>},
                  links : {"empty", "some"},
                  poster : {"none", "url"}]

\* getattr(stream, name, False): an unset attribute counts as empty
GetAttrFalse(x) == x \in {"some", "url"}

\* truth of getattr(stream, name, True): an unset attribute counts as True
GetAttrTrue(x) == IF x = "unset" THEN TRUE ELSE x \in {"some", "url"}

\* the condition of the list comprehension of Episode.serialise_special
Kept(stream) == persist(stream) \/ GetAttrTrue(stream.links) \/ GetAttrTrue(stream.poster)

RECURSIVE StreamStates(_)
\* [stream.state for stream in value if ...]
StreamStates(value) ==
    IF value = <<>>
    THEN <<>>
    ELSE (IF Kept(Head(value)) THEN <<State(Head(value))>> ELSE <<>>)
             \o StreamStates(Tail(value))

\* Episode.get_stream
get_stream(data) ==
    IF ~data.hasCls
    THEN Raised("KeyError")
    ELSE IF Len(data.cls) < 2
         THEN Raised("ValueError")
         ELSE LET m == SubSeq(data.cls, 1, Len(data.cls) - 1)
                  c == data.cls[Len(data.cls)]
              IN  IF m \notin Loaded
                  THEN Returned(NoStream)
                  ELSE IF c \notin ClassesOf(m)
                       THEN Raised("AttributeError")
                       ELSE Returned(from_state(data))

\* str(i) and int(s) on the indices of an episode map
Digits == <<"0", "1", "2", "3", "4", "5", "6", "7", "8", "9">>
str(i) == Digits[i + 1]
IsInt(s) == \E i \in 0..9 : Digits[i + 1] = s
int(s) == CHOOSE i \in 0..9 : Digits[i + 1] = s

\* Episodes as they live in an Anime, ep.state, and persisted Episode records,
\* of which EPISODE_CLS.from_state cannot rebuild the damaged ones
LiveEpisodes == [host : {"e1", "e2"}]
EpState(ep) == [host |-> ep.host, sound |-> TRUE]
EpisodeRecords == [host : {"e1", "e2"}, sound : BOOLEAN]
EpFromState(data) == IF data.sound THEN Returned([host |-> data.host]) ELSE Raised("KeyError")

\* the members of Language by their values
Languages == {"en", "de"}
Language(value) ==
    IF value \in Languages THEN Returned([enum |-> "Language", value |-> value])
    ELSE Raised("ValueError")

\* Episode.serialise_special (lines 274-279) and Anime.serialise_special (442-446)
serialise_special(cls, key, value) ==
    IF cls = "Episode"
    THEN IF key = "streams"
         THEN Returned(StreamStates(value))
         ELSE \* key = "stream": value.state, an AttributeError on None
              IF value = NoStream THEN Raised("AttributeError") ELSE Returned(State(value))
    ELSE IF key = "episodes"
         THEN Returned([k \in {str(i) : i \in DOMAIN value} |-> EpState(value[int(k)])])
         ELSE Returned(value.value)

\* Episode.deserialise_special (lines 289-297) and Anime.deserialise_special (448-453)
deserialise_special(cls, key, value) ==
    IF cls = "Episode"
    THEN IF key = "streams"
         THEN LET outs == [i \in DOMAIN value |-> get_stream(value[i])]
                  bad == {i \in DOMAIN value : ~outs[i].ok}
              IN  IF bad # {}
                  THEN outs[CHOOSE i \in bad : \A j \in bad : i <= j]
                  ELSE Returned([i \in DOMAIN value |-> outs[i].val])
         ELSE get_stream(value)
    ELSE IF key = "episodes"
         THEN IF \E k \in DOMAIN value : ~IsInt(k)
              THEN Raised("ValueError")
              ELSE IF \E k \in DOMAIN value : ~EpFromState(value[k]).ok
                   THEN Raised("KeyError")
                   ELSE Returned([i \in {int(k) : k \in DOMAIN value} |->
                                     EpFromState(value[str(i)]).val])
         ELSE Language(value)

\* the attributes with a hook, by class
Hooked == {<<"Episode", "streams">>, <<"Episode", "stream">>,
           <<"Anime", "episodes">>, <<"Anime", "language">>}

\* the values an attribute can hold in a live object
LiveValues(h) ==
    IF h = <<"Episode", "streams">>
    THEN UNION {[1..n -> LiveStreams] : n \in 0..MaxSer}
    ELSE IF h = <<"Episode", "stream">>
         THEN LiveStreams \cup {NoStream}
         ELSE IF h = <<"Anime", "episodes">>
              THEN UNION {[0..(n - 1) -> LiveEpisodes] : n \in 0..MaxEpisodes}
              ELSE {[enum |-> "Language", value |-> l] : l \in Languages}

\* the values a persisted record can hold for an attribute, damaged ones included
StoredValues(h) ==
    IF h = <<"Episode", "streams">>
    THEN UNION {[1..n -> StreamRecords] : n \in 0..MaxSer}
    ELSE IF h = <<"Episode", "stream">>
         THEN StreamRecords
         ELSE IF h = <<"Anime", "episodes">>
              THEN UNION {[{str(i) : i \in 0..(n - 1)} -> EpisodeRecords] : n \in 0..MaxEpisodes}
              ELSE Languages \cup {"xx"}

\* the state of an object is taken: the hook of one attribute runs on its value
Serialise(h, v) ==
    /\ serOp' = [op |-> "serialise", cls |-> h[1], key |-> h[2], arg |-> v,
                 mid |-> Returned(<<>>), out |-> serialise_special(h[1], h[2], v)]
    /\ UNCHANGED notSer

\* an object is rebuilt from a record: the hook of one attribute runs on its value
Deserialise(h, d) ==
    /\ serOp' = [op |-> "deserialise", cls |-> h[1], key |-> h[2], arg |-> d,
                 mid |-> Returned(<<>>), out |-> deserialise_special(h[1], h[2], d)]
    /\ UNCHANGED notSer

\* a value is serialised and what that gave is deserialised
RoundTrip(h, v) ==
    /\ LET mid == serialise_special(h[1], h[2], v) IN
       serOp' = [op |-> "roundtrip", cls |-> h[1], key |-> h[2], arg |-> v, mid |-> mid,
                 out |-> IF mid.ok THEN deserialise_special(h[1], h[2], mid.val) ELSE mid]
    /\ UNCHANGED notSer

InitSer == DirtyIdle /\ SelInit /\ prio = <<>> /\ ShowIdle /\ SerIdle /\ QryIdle

NextSer ==
    \/ serOp.op = "none" /\ \E h \in Hooked : \E v \in LiveValues(h) : Serialise(h, v)
    \/ serOp.op = "none" /\ \E h \in Hooked : \E d \in StoredValues(h) : Deserialise(h, d)
    \/ serOp.op = "none" /\ \E h \in Hooked : \E v \in LiveValues(h) : RoundTrip(h, v)

SpecSer == InitSer /\ [][NextSer]_vars

\* ------------------------------------------------------------ query.py

\* request.args.get(name) is None
Missing(args, name) == name \notin DOMAIN args

\* the texts int() converts, as request.args.get(name, type=int) does
ParamInts ==
    ("-1" :> -1) @@ ("0" :> 0) @@ ("1" :> 1) @@ ("2" :> 2) @@ ("3" :> 3) @@ ("4" :> 4)
        @@ ("20" :> 20) @@ ("21" :> 21)

\* what a failed validation raises, as a value of the parsing operators
InvalidRequest == [ok |-> FALSE, val |-> 0]
Parsed(v) == [ok |-> TRUE, val |-> v]

\* a _get_int_param that falls back to 0 where no default is given
get_int_param_lenient(args, name, default) ==
    IF Missing(args, name) \/ args[name] \notin DOMAIN ParamInts
    THEN IF default.ok THEN default ELSE Parsed(0)
    ELSE Parsed(ParamInts[args[name]])

\* _get_int_param(name, default); the default _DEFAULT is passed as InvalidRequest
get_int_param(args, name, default) ==
    IF Missing(args, name) \/ args[name] \notin DOMAIN ParamInts
    THEN default
    ELSE Parsed(ParamInts[args[name]])

\* the texts languages.get_lang and utils.fuzzy_bool convert, and what they give
LangNames == ("english" :> "en")
BoolNames == ("true" :> "True") @@ ("false" :> "False")

\* what a converter that raised ValueError or TypeError leaves
Unconverted == [ok |-> FALSE, val |-> ""]

\* convert_language = languages.get_lang
get_lang(text) ==
    IF text \in DOMAIN LangNames THEN Parsed(LangNames[text]) ELSE Unconverted

\* convert_dubbed = fuzzy_bool
fuzzy_bool(text) ==
    IF text \in DOMAIN BoolNames THEN Parsed(BoolNames[text]) ELSE Unconverted

\* the annotated attributes of a query type in the order get_type_hints gives
\* them, and those of them that have a class-level default
Hints(type) == IF type = "UID" THEN <<"uid">> ELSE <<"anime", "language", "dubbed">>
HasDefault(type, key) == type = "Query" /\ key \in {"language", "dubbed"}

\* getattr(cls, f"convert_{key}", typ) applied to the value; UID and str leave a
\* text as it is
Convert(key, text) ==
    IF key = "language" THEN get_lang(text)
    ELSE IF key = "dubbed" THEN fuzzy_bool(text)
    ELSE Parsed(text)

\* an attribute after _Generic.__init__: the converted value, or the class default
Attr(type, args, key) ==
    IF Missing(args, key) THEN "None" ELSE Convert(key, args[key]).val

\* what try_build gives where the constructor raised, and where build found no type
NoQuery == [ok |-> FALSE, type |-> "-", by |-> "", language |-> "None", dubbed |-> "None"]

\* _Generic.try_build: the query, or None if a key without default is missing
\* (KeyError) or a converter raised (ValueError)
try_build(type, args) ==
    LET keys == Hints(type) IN
    IF \E i \in DOMAIN keys :
           IF Missing(args, keys[i]) THEN ~HasDefault(type, keys[i])
           ELSE ~Convert(keys[i], args[keys[i]]).ok
    THEN NoQuery
    ELSE [ok |-> TRUE, type |-> type, by |-> Attr(type, args, keys[1]),
          language |-> IF type = "Query" THEN Attr(type, args, "language") ELSE "None",
          dubbed |-> IF type = "Query" THEN Attr(type, args, "dubbed") ELSE "None"]

\* the order build tries the query types in, and that order reversed
TitleFirst == <<"Query", "UID">>
QueryTypes == <<"UID", "Query">>

\* AnimeQuery.build: the first query type try_build succeeds with, else
\* InvalidRequest (a result that is not ok)
build(args) ==
    IF try_build(QueryTypes[1], args).ok THEN try_build(QueryTypes[1], args)
    ELSE IF try_build(QueryTypes[2], args).ok THEN try_build(QueryTypes[2], args)
         ELSE NoQuery

\* the local `query` of a handler that has not called build
Unbuilt == [NoQuery EXCEPT !.type = "unbuilt"]

\* the index parameters a handler reads, in the order it reads them
IndexParams(h) ==
    IF h = "get_stream" THEN <<"stream", "episode">>
    ELSE IF h = "get_source" THEN <<"source", "episode">>
    ELSE IF h = "get_episode" THEN <<"episode">>
    ELSE <<>>

\* a handler up to its first await of a source: whether it raised InvalidRequest
Rejects(h, args) ==
    IF h = "search_anime"
    THEN \/ ~build(args).ok
         \/ build(args).type = "UID"                   \* search_params of a UID query
         \/ Missing(args, "anime") \/ args["anime"] = ""  \* `if not query`
         \/ LET n == get_int_param(args, "results", Parsed(1)).val IN ~(0 < n /\ n <= 20)
    ELSE \/ \E i \in DOMAIN IndexParams(h) :
               ~get_int_param(args, IndexParams(h)[i], InvalidRequest).ok
         \/ ~build(args).ok
         \/ build(args).type = "UID" /\ build(args).by = ""   \* `if not self.uid`

\* 0 <= index < len(...) without its lower half
InRangeUpper(index, n) == index < n

\* `0 <= index < len(...)` of Episode.get and get_source
InRange(index, n) == 0 <= index /\ index < n

\* list[index] as Python evaluates it: a negative index counts from the end
PyIndex(list, index) ==
    IF 0 <= index /\ index < Len(list) THEN Returned(list[index + 1])
    ELSE IF index < 0 /\ -index <= Len(list) THEN Returned(list[Len(list) + index + 1])
    ELSE Raised("IndexError")

\* Episode.get(index), and lines 195-199 of get_source, on the list awaited
Pick(list, index, notFound) ==
    IF ~InRange(index, Len(list)) THEN Raised(notFound) ELSE PyIndex(list, index)

\* the items left in the order they came
Unsorted(items, certainty) == items

RECURSIVE Insert(_, _, _)
\* x put into a list that is descending by certainty, behind its equals
Insert(x, list, certainty) ==
    IF list = <<>> THEN <<x>>
    ELSE IF certainty[Head(list)] >= certainty[x]
         THEN <<Head(list)>> \o Insert(x, Tail(list), certainty)
         ELSE <<x>> \o list

RECURSIVE InsertAll(_, _, _)
InsertAll(items, list, certainty) ==
    IF items = <<>> THEN list
    ELSE InsertAll(Tail(items), Insert(Head(items), list, certainty), certainty)

\* sorted(results_pool, key=attrgetter("certainty"), reverse=True): stable
sorted(items, certainty) == InsertAll(items, <<>>, certainty)

\* seq[:n]
Prefix(seq, n) == SubSeq(seq, 1, IF n < Len(seq) THEN n ELSE Len(seq))

Handlers == {"search_anime", "get_episode", "get_stream", "get_source"}

\* the query strings a handler is tried on: each parameter absent or one of a few texts
Texts(name) ==
    IF name \in {"uid", "anime"} THEN {"", "naruto"}
    ELSE IF name = "language" THEN {"english", "klingon"}
    ELSE IF name = "dubbed" THEN {"true", "maybe"}
    ELSE IF name = "results" THEN {"x", "0", "1", "4", "20", "21"}
    ELSE {"x", "-1", "0", "1", "2", "3"}

ParamsOf(h) ==
    {"uid", "anime"} \cup
        (IF h = "search_anime" THEN {"results"}
         ELSE {IndexParams(h)[i] : i \in DOMAIN IndexParams(h)})

AllTexts == UNION {Texts(name) : name \in {"uid", "results", "episode"}}

\* a choice of text for each parameter with "absent" for leaving it out, and the
\* request.args that choice makes
Choices(h) ==
    {c \in [ParamsOf(h) -> AllTexts \cup {"absent"}] :
        \A name \in ParamsOf(h) : c[name] \in Texts(name) \cup {"absent"}}
ArgsBy(c) == [name \in {m \in DOMAIN c : c[m] # "absent"} |-> c[name]]
\* the optional language and dubbed parameters, each absent or one of its texts
FilterChoices ==
    {c \in [{"language", "dubbed"} -> Texts("language") \cup Texts("dubbed") \cup {"absent"}] :
        \A name \in DOMAIN c : c[name] \in Texts(name) \cup {"absent"}}
Filters == {ArgsBy(c) : c \in FilterChoices}
ArgsOf(h) == {ArgsBy(c) @@ f : c \in Choices(h), f \in Filters}

\* num_results and consider_results of search_anime
NumResults(args) == get_int_param(args, "results", Parsed(1)).val
Consider(n) == Max({n, 3})

\* the list `await episode.streams` / `await episode.sources` gives: its i-th
\* element is named i
Lists == {[i \in 1..k |-> i] : k \in 0..MaxFound}

\* a handler is entered with the query string of its request and runs up to its
\* first await of a source, or raises InvalidRequest
Receive(h, args) ==
    /\ qpc = "idle"
    /\ req' = [h |-> h, args |-> args]
    /\ query' = IF \E i \in DOMAIN IndexParams(h) :
                       ~get_int_param(args, IndexParams(h)[i], InvalidRequest).ok
                THEN Unbuilt
                ELSE build(args)
    /\ IF Rejects(h, args)
       THEN /\ qout' = Raised("InvalidRequest")
            /\ qpc' = "done"
            /\ UNCHANGED lookups
       ELSE /\ qout' = qout
            /\ qpc' = IF h = "search_anime" THEN "search" ELSE "anime"
            /\ lookups' = lookups + 1
    /\ UNCHANGED <<cands, feed, pulled, pool, results>>
    /\ UNCHANGED notQry

\* resolve: sources.get_anime / sources.get_anime_by_title came back (lines 73-77,
\* 101-105), and get_episode goes on to anime.get(episode_index)
AnimeDone(found) ==
    /\ qpc = "anime"
    /\ IF found
       THEN /\ qpc' = "episode"
            /\ lookups' = lookups + 1
            /\ qout' = qout
       ELSE /\ qpc' = "done"
            /\ qout' = Raised(IF build(req.args).type = "UID" THEN "UIDUnknown"
                              ELSE "AnimeNotFound")
            /\ UNCHANGED lookups
    /\ UNCHANGED <<req, query, cands, feed, pulled, pool, results>>
    /\ UNCHANGED notQry

\* anime.get(episode_index) came back with the Episode or raised EpisodeNotFound;
\* get_stream and get_source go on to await the Episode's list
EpisodeDone(found) ==
    /\ qpc = "episode"
    /\ IF ~found
       THEN /\ qpc' = "done"
            /\ qout' = Raised("EpisodeNotFound")
            /\ UNCHANGED lookups
       ELSE IF req.h = "get_episode"
            THEN /\ qpc' = "done"
                 /\ qout' = Returned("episode")
                 /\ UNCHANGED lookups
            ELSE /\ qpc' = "list"
                 /\ qout' = qout
                 /\ lookups' = lookups + 1
    /\ UNCHANGED <<req, query, cands, feed, pulled, pool, results>>
    /\ UNCHANGED notQry

\* the index a get_stream / get_source request asks for
AskedIndex == get_int_param(req.args, IndexParams(req.h)[1], InvalidRequest).val

\* `await self.streams` of Episode.get, `await episode.sources` of get_source
ListDone(list) ==
    /\ qpc = "list"
    /\ cands' = list
    /\ qout' = Pick(list, AskedIndex,
                    IF req.h = "get_stream" THEN "StreamNotFound" ELSE "SourceNotFound")
    /\ qpc' = "done"
    /\ UNCHANGED <<req, query, lookups, feed, pulled, pool, results>>
    /\ UNCHANGED notQry

\* search_anime, lines 153-159: one turn of `async for result in result_iter`, in
\* which the source search yields a result of the given certainty or, with 0, ends;
\* when the loop ends the pool is sorted and cut and the preloading is awaited
SearchPull(item) ==
    /\ qpc = "search"
    /\ item # 0 => Len(feed) < MaxFeed
    /\ LET n == NumResults(req.args)
           more == item # 0
           full == Len(pool) >= Consider(n)
       IN  /\ feed' = IF more THEN Append(feed, item) ELSE feed
           /\ pulled' = IF more THEN pulled + 1 ELSE pulled
           /\ IF more /\ ~full
              THEN /\ pool' = Append(pool, pulled + 1)
                   /\ UNCHANGED <<qpc, results>>
              ELSE /\ results' = Prefix(sorted(pool, feed), n)
                   /\ qpc' = "preload"
                   /\ UNCHANGED pool
    /\ UNCHANGED <<req, query, lookups, qout, cands>>
    /\ UNCHANGED notQry

\* lines 160-162: the preloading is done and results[:num_results] is returned
PreloadDone ==
    /\ qpc = "preload"
    /\ qout' = Returned(Prefix(results, NumResults(req.args)))
    /\ qpc' = "done"
    /\ UNCHANGED <<req, query, lookups, cands, feed, pulled, pool, results>>
    /\ UNCHANGED notQry

\* a request comes in
ReceiveRequest ==
    /\ qpc = "idle"
    /\ \E h \in Handlers : \E args \in ArgsOf(h) : Receive(h, args)

InitQry == DirtyIdle /\ SelInit /\ prio = <<>> /\ ShowIdle /\ SerIdle /\ QryIdle

NextQry ==
    \/ ReceiveRequest
    \/ \E found \in BOOLEAN : AnimeDone(found)
    \/ \E found \in BOOLEAN : EpisodeDone(found)
    \/ \E list \in Lists : ListDone(list)
    \/ \E item \in 0..MaxCertainty : SearchPull(item)
    \/ PreloadDone

SpecQry == InitQry /\ [][NextQry]_vars

\* ------------------------------------------------------------------ claims

Resolved(x) == x \in {"true", "false"}

\* a candidate validated as externally usable and working
Viable(s) == ext[s] = "true" /\ work[s] = "true"

\* C1: when the result get_first looks at satisfies the predicate, exactly the
\* computations still outstanding at that moment are cancelled and that result is
\* what is returned (and memoized by Episode.stream); when it does not, nothing is
\* cancelled and get_first keeps waiting on the remaining computations.
C1_FirstSatisfyingWins ==
    /\ gf.kind = "win" =>
          /\ result[gf.t] = "self"
          /\ cancelSig = gf.pending
          /\ slot = [st |-> "resolved", val |-> gf.t]
          /\ \A c \in Callers : caller[c] = "returned" => got[c] = gf.t
    /\ gf.kind = "discard" =>
          /\ result[gf.t] = "none"
          /\ cancelSig = {}
          /\ gf.pending # {} => pc = "racing" /\ coros = gf.pending

\* C1 witness: a result won while computations were outstanding, after another
\* result of the race was looked at
C1_Witness ==
    /\ gf.kind = "win"
    /\ gf.pending # {}
    /\ examined \ {gf.t} # {}

\* C2: the predicate is evaluated on the result of every computation that completed
\* before get_first returned, and get_first returns nothing only if no completed
\* computation's result satisfies the predicate.
C2_EveryCompletedExamined ==
    /\ dropped = {}
    /\ (slot.st = "resolved" /\ slot.val = None) =>
          \A s \in Streams : result[s] # "self"

\* C3: the stream Episode.stream returns is externally usable and working and no
\* externally usable and working candidate has a higher priority; it returns nothing
\* only if no candidate is externally usable and working.
C3_HighestViablePriority ==
    slot.st = "resolved" =>
        /\ slot.val # None => Viable(slot.val)
        /\ \A s \in Streams :
              Viable(s) => slot.val # None /\ prio[slot.val] >= prio[s]

\* C4: a validation of a candidate is started only after every candidate of every
\* higher priority was validated, handed back by get_first and found no winner; no
\* candidate below the winner's priority is ever started; the candidates of one
\* priority are started together.
C4_GroupsSequential ==
    \A s \in Streams : task[s] # "none" =>
        /\ \A h \in Streams : prio[h] > prio[s] =>
              /\ task[h] = "done"
              /\ h \in examined \cup dropped
              /\ h \notin coros
              /\ ~(slot.st = "resolved" /\ slot.val = h)
        /\ \A g \in Streams : prio[g] = prio[s] => task[g] # "none"

\* C4 witness: two candidates of a lower group being validated together, below a
\* higher group
C4_Witness ==
    \E s \in Streams, h \in Streams, g \in Streams :
        /\ g # s
        /\ prio[g] = prio[s]
        /\ prio[h] > prio[s]
        /\ task[s] \in {"ext_own", "work_own"}
        /\ task[g] \in {"ext_own", "work_own"}

\* C5: after get_first called cancel() on a validation, that validation assigns no
\* memoized slot.
C5_NoWriteAfterCancel == lateWrite = {}

\* C6: Episode.stream never raises because a computation of a candidate raised.
C6_ProviderFailureContained ==
    /\ streamFails = 0
    /\ \A c \in Callers : caller[c] # "raised"

\* C7: Stream.working resolves to true or false, never to an error: to true exactly
\* when links ended with a non-empty list, to false when links was empty, raised or
\* was cancelled; once resolved, the memoized value never changes.
C7_WorkingState ==
    \A s \in Streams :
        /\ work[s] \in {"unset", "pending", "true", "false"}
        /\ Resolved(work[s]) =>
              /\ linksOut[s] \in {"nonempty", "nothing"}
              /\ work[s] = "true" <=> linksOut[s] = "nonempty"
        /\ ~Resolved(work[s]) => linksOut[s] = "-"

C7_WorkingStable ==
    \A s \in Streams : Resolved(work[s]) => work'[s] = work[s]

C7_WorkingTotal == []C7_WorkingState /\ [][C7_WorkingStable]_vars

\* C7 witness: one working resolved to false by a cancellation, another to true
C7_Witness ==
    \E s \in Streams, r \in Streams :
        /\ s \in lateWrite
        /\ linksOut[s] = "nothing"
        /\ work[s] = "false"
        /\ linksOut[r] = "nonempty"
        /\ work[r] = "true"

\* C8: a memoized attribute read again while its computation is pending starts no
\* second computation: Episode.stream's body runs once unless a run raised, the body
\* of Stream.working runs at most once per Stream, and all accessors of
\* Episode.stream that obtained a value obtained the same one.
C8_SingleFlight ==
    /\ streamStarts <= 1 + streamFails
    /\ slot.st = "pending" => streamStarts = 1 + streamFails
    /\ \A s \in Streams : workStarts[s] <= 1
    /\ \A c \in Callers : caller[c] = "returned" =>
          slot.st = "resolved" /\ got[c] = slot.val

\* C8 witness: every accessor awaits the one pending run of Episode.stream
C8_Witness ==
    /\ \A c \in Callers : caller[c] = "waiting"
    /\ slot.st = "pending"
    /\ streamStarts = 1
    /\ \E s \in Streams : workStarts[s] = 1

\* C9: whenever a Stream an Episode holds is dirty the Episode reports dirty, and
\* whenever an Episode the Anime holds has its own flag set or holds a dirty Stream
\* the Anime reports dirty.
C9_DirtyPropagatesUp ==
    /\ \A e \in Episodes :
          (hasEpisodes /\ hasStreams[e] /\ \E i \in StreamsOf : sDirty[e][i])
              => EpisodeDirty(e)
    /\ (hasEpisodes /\ \E e \in Episodes :
            eDirty[e] \/ (hasStreams[e] /\ \E i \in StreamsOf : sDirty[e][i]))
          => AnimeDirty

\* C9 witness: a Stream was set dirty below an Episode and an Anime whose own flags
\* are clear
C9_Witness ==
    /\ hasEpisodes
    /\ ~aDirty
    /\ \E e \in Episodes :
          /\ ~eDirty[e]
          /\ hasStreams[e]
          /\ \E i \in StreamsOf : sDirty[e][i]
    /\ lastOp.op = "stream"

\* C10 as claimed: a step that sets Anime.dirty to false changes no flag of an
\* Episode or a Stream.
C10_ClearKeepsChildren ==
    [][(lastOp'.op = "anime" /\ lastOp'.v = FALSE) =>
          (eDirty' = eDirty /\ sDirty' = sDirty)]_vars

\* C10 as amended: after Anime.dirty was set to false, the flag of every Episode of
\* the Anime's episode map and of every Stream those Episodes hold is false, and the
\* Anime reports not dirty.
C10_ClearCascades ==
    (lastOp.op = "anime" /\ lastOp.v = FALSE) =>
        /\ ~AnimeDirty
        /\ hasEpisodes => \A e \in Episodes :
              /\ ~eDirty[e]
              /\ hasStreams[e] => \A i \in StreamsOf : ~sDirty[e][i]

\* C10 witness: Anime.dirty was set to false on an Anime holding Episodes with Streams
C10_Witness ==
    /\ lastOp.op = "anime"
    /\ lastOp.v = FALSE
    /\ hasEpisodes
    /\ \E e \in Episodes : hasStreams[e]

\* C11: whenever Anime.get finishes while episode_count is resolved, it raised
\* EpisodeNotFound exactly if its index lies outside [0, episode_count), and
\* otherwise gave the Episode the map stores for that index
C11_GetWithinCount ==
    (lastGet.res # "none" /\ lastGet.count >= 0) =>
        /\ lastGet.res = "raised" <=> ~(0 <= lastGet.index /\ lastGet.index < lastGet.count)
        /\ lastGet.res = "ep" => lastGet.obj = MapGet(epMap, lastGet.index)

\* C12: an index of Anime._episodes that holds an Episode object holds that same
\* object after every step, whatever Anime.episodes and Anime.get calls overlap
C12_EntryNeverReplaced ==
    [][\A i \in Indices :
          (mapSet /\ epMap[i] # 0) => (mapSet' /\ epMap'[i] = epMap[i])]_vars

\* C13: get_episodes is invoked at most once for an Anime, however episodes,
\* episode_count and get are accessed
C13_EnumeratedOnce == enumCalls <= 1

\* the elements of a list
Elements(seq) == {seq[i] : i \in DOMAIN seq}

\* the streams list of an Episode has been serialised
SerialisedStreams ==
    serOp.op = "serialise" /\ serOp.cls = "Episode" /\ serOp.key = "streams"

\* a Stream that has been processed and came out empty: not persisting, its links
\* resolved to an empty list and its poster resolved to None
ProcessedEmpty(stream) ==
    ~persist(stream) /\ stream.links = "empty" /\ stream.poster = "none"

\* C14 (as the code has it): the serialised streams list leaves out exactly the
\* Streams that do not persist and whose links and poster are both resolved and
\* empty; a Stream with links or poster still unresolved is included
C14_DroppedWhenProcessedEmpty ==
    SerialisedStreams =>
        /\ serOp.out.ok
        /\ \A i \in DOMAIN serOp.arg :
              State(serOp.arg[i]) \in Elements(serOp.out.val)
                  <=> ~ProcessedEmpty(serOp.arg[i])
        /\ Len(serOp.out.val) =
              Cardinality({i \in DOMAIN serOp.arg : ~ProcessedEmpty(serOp.arg[i])})

\* C14 (as stated): a Stream is in the serialised streams list only if it has a
\* poster, has at least one link, or persists
C14_OnlyPersistWorthy ==
    SerialisedStreams =>
        \A i \in DOMAIN serOp.arg :
           State(serOp.arg[i]) \in Elements(serOp.out.val) =>
               \/ serOp.arg[i].poster = "url"
               \/ serOp.arg[i].links = "some"
               \/ persist(serOp.arg[i])

\* a list with an unprocessed Stream, which is kept, and a processed empty one,
\* which is dropped
C14_Witness ==
    /\ SerialisedStreams
    /\ Len(serOp.arg) = 2
    /\ ~persist(serOp.arg[1]) /\ serOp.arg[1].links = "unset" /\ serOp.arg[1].poster = "none"
    /\ ProcessedEmpty(serOp.arg[2])
    /\ serOp.out.val = <<State(serOp.arg[1])>>

\* a persisted Stream record that names a class the running program has
Recoverable(data) ==
    data.hasCls /\ data.cls \in {<<"streams", "A">>, <<"streams", "P">>}

\* C15: deserialising a streams list or an episode map succeeds whatever child
\* records are damaged, and gives exactly the children that can be rebuilt,
\* without a placeholder for the others
C15_DamagedChildDropped ==
    /\ (serOp.op = "deserialise" /\ serOp.key = "streams") =>
          /\ serOp.out.ok
          /\ NoStream \notin Elements(serOp.out.val)
          /\ Len(serOp.out.val) =
                Cardinality({i \in DOMAIN serOp.arg : Recoverable(serOp.arg[i])})
    /\ (serOp.op = "deserialise" /\ serOp.key = "episodes") =>
          /\ serOp.out.ok
          /\ DOMAIN serOp.out.val = {int(k) : k \in {j \in DOMAIN serOp.arg : serOp.arg[j].sound}}

\* C16: deserialise_special(key, serialise_special(key, v)) succeeds and gives v
\* back, for a streams list of persist-worthy Streams, a selected stream (None
\* included), an episode map and a language
C16_RoundTrip ==
    (/\ serOp.op = "roundtrip"
     /\ serOp.key = "streams" =>
           \A i \in DOMAIN serOp.arg :
              \/ serOp.arg[i].poster = "url"
              \/ serOp.arg[i].links = "some"
              \/ persist(serOp.arg[i]))
    => (serOp.out.ok /\ serOp.out.val = serOp.arg)

\* a parameter that is not given, or is given with a text that is no integer
NoInteger(args, name) == Missing(args, name) \/ args[name] \notin DOMAIN ParamInts

\* a request whose required lookup parameters are missing or malformed: neither
\* uid nor anime given, an index the handler needs missing or no integer,
\* results an integer outside 1..20
MissingOrMalformed ==
    \/ Missing(req.args, "uid") /\ Missing(req.args, "anime")
    \/ req.h \in {"get_episode", "get_stream", "get_source"} /\ NoInteger(req.args, "episode")
    \/ req.h = "get_stream" /\ NoInteger(req.args, "stream")
    \/ req.h = "get_source" /\ NoInteger(req.args, "source")
    \/ /\ req.h = "search_anime"
       /\ ~NoInteger(req.args, "results")
       /\ ~(1 <= ParamInts[req.args["results"]] /\ ParamInts[req.args["results"]] <= 20)

\* the handler raised the given exception
HasRaised(exc) == qpc = "done" /\ ~qout.ok /\ qout.exc = exc

\* C17: a handler entered with missing or malformed required lookup parameters
\* has raised InvalidRequest and started no source lookup or search, and no
\* handler that raised InvalidRequest started one
C17_InvalidBeforeLookup ==
    /\ (qpc # "idle" /\ MissingOrMalformed) =>
           (HasRaised("InvalidRequest") /\ lookups = 0)
    /\ HasRaised("InvalidRequest") => lookups = 0

\* get_stream with a title and a stream index but an episode that is no integer
C17_Witness ==
    /\ req.h = "get_stream"
    /\ ~Missing(req.args, "anime") /\ ~NoInteger(req.args, "stream")
    /\ ~Missing(req.args, "episode") /\ req.args["episode"] = "x"
    /\ HasRaised("InvalidRequest")
    /\ lookups = 0

\* get_stream or get_source has awaited the list it indexes (its third lookup)
IndexedList == qpc = "done" /\ lookups = 3

\* C18: Episode.get and get_source give the index-th element of the list (counted
\* from 0) exactly when 0 <= index < len(list), and raise StreamNotFound
\* (SourceNotFound) otherwise; a negative index gives no element
C18_IndexWithinList ==
    IndexedList =>
        LET notFound == IF req.h = "get_stream" THEN "StreamNotFound" ELSE "SourceNotFound" IN
        IF 0 <= AskedIndex /\ AskedIndex < Len(cands)
        THEN qout.ok /\ qout.val = cands[AskedIndex + 1]
        ELSE HasRaised(notFound)

\* a negative index on a non-empty list of streams, and the last index of a list
\* of sources
C18_Witness ==
    \/ /\ req.h = "get_stream" /\ IndexedList
       /\ AskedIndex = -1 /\ Len(cands) = 2
       /\ HasRaised("StreamNotFound")
    \/ /\ req.h = "get_source" /\ IndexedList
       /\ AskedIndex = 1 /\ Len(cands) = 2
       /\ qout.ok /\ qout.val = 2

\* search_anime has returned its results
SearchReturned == req.h = "search_anime" /\ qpc = "done" /\ qout.ok

\* what search_anime returns: at most n results of the pool, each once, in
\* descending order of certainty, and none of the pool left out that has a
\* higher certainty than one returned
TopOfPool(n) ==
    LET out == qout.val IN
    /\ Len(out) = (IF n < Len(pool) THEN n ELSE Len(pool))
    /\ \A i \in DOMAIN out : out[i] \in Elements(pool)
    /\ \A i, j \in DOMAIN out : i < j => (out[i] # out[j] /\ feed[out[i]] >= feed[out[j]])
    /\ \A x \in Elements(pool) \ Elements(out) : \A i \in DOMAIN out : feed[x] <= feed[out[i]]

\* C20 (as the code has it): search_anime takes at most max(n, 3) + 1 results from
\* the source search, keeps the first max(n, 3) of them in its pool and returns
\* the n of the pool with the highest certainty, in descending order
C20_TopOfFirstResults ==
    LET n == NumResults(req.args) IN
    /\ req.h = "search_anime" =>
          /\ pulled <= Consider(n) + 1
          /\ Len(pool) <= Consider(n)
          /\ pool = [i \in 1..Len(pool) |-> i]
    /\ SearchReturned => (n \in 1..20 /\ TopOfPool(n))

\* C20 (as stated): search_anime consumes at most max(n, 3) results from the
\* source search and returns the n of them with the highest certainty
C20_ConsumesAtMostConsidered ==
    LET n == NumResults(req.args) IN
    /\ req.h = "search_anime" => pulled <= Consider(n)
    /\ SearchReturned => TopOfPool(n)

\* one result asked for, four taken from the source search, three of them kept
\* and the best of these returned though it came second
C20_Witness ==
    /\ SearchReturned
    /\ NumResults(req.args) = 1
    /\ pulled = 4 /\ Len(pool) = 3
    /\ feed[1] = 1 /\ feed[2] = 2
    /\ qout.val = <<2>>

\* get_first took a wait step
WaitStep == gf' # gf /\ gf'.kind # "start"

\* C19: while the computations handed to get_first complete, a running
\* Episode.stream comes to its end (each get_first it awaits returns or re-raises);
\* every wait step leaves strictly fewer computations outstanding; and with no
\* candidates nothing is waited for, nothing fails and the stream resolves to None
C19_GetFirstReturns ==
    /\ (pc = "racing") ~> (pc = "idle")
    /\ [][WaitStep => (gf'.pending \subseteq coros /\ gf'.pending # coros)]_vars
    /\ [](Streams = {} =>
            /\ pc = "idle" /\ streamFails = 0
            /\ \A c \in Callers : caller[c] \in {"idle", "returned"}
            /\ slot.st = "resolved" => slot.val = None)

\* a race that went through two wait steps and came to its end; an Episode
\* without candidates read once
C19_Witness ==
    \/ /\ pc = "idle" /\ slot.st = "resolved"
       /\ gf.kind = "discard" /\ gf.pending = {}
       /\ Cardinality(examined) >= 2
    \/ /\ Streams = {} /\ slot.st = "resolved" /\ caller[1] = "returned"


\* the optional language and dubbed values of a query string are absent or texts
\* their converters take
Convertible(args) ==
    /\ Missing(args, "language") \/ args["language"] \in DOMAIN LangNames
    /\ Missing(args, "dubbed") \/ args["dubbed"] \in DOMAIN BoolNames

\* a query string that names the anime by title: no uid, an anime, convertible values
Titled(args) == Missing(args, "uid") /\ ~Missing(args, "anime") /\ Convertible(args)

\* a handler has called AnimeQuery.build on its request
Built == qpc # "idle" /\ query.type # "unbuilt"

\* C21: what AnimeQuery.build gives is fixed by the parameters of the request: a UID
\* query carrying the uid whenever uid is given, whatever else is given; a title
\* query carrying the anime and the converted language and dubbed values when uid
\* is absent, anime is given and language and dubbed are convertible; InvalidRequest
\* before any lookup in every other case; and search_anime raises InvalidRequest
\* before any search for every request that carries a uid
C21_UidPrecedence ==
    Built =>
        /\ ~Missing(req.args, "uid") =>
               /\ query = [ok |-> TRUE, type |-> "UID", by |-> req.args["uid"],
                           language |-> "None", dubbed |-> "None"]
               /\ req.h = "search_anime" => HasRaised("InvalidRequest") /\ lookups = 0
        /\ Titled(req.args) =>
               /\ query.ok /\ query.type = "Query" /\ query.by = req.args["anime"]
               /\ query.language = IF Missing(req.args, "language") THEN "None"
                                   ELSE LangNames[req.args["language"]]
               /\ query.dubbed = IF Missing(req.args, "dubbed") THEN "None"
                                 ELSE BoolNames[req.args["dubbed"]]
        /\ Missing(req.args, "uid") /\ ~Titled(req.args) =>
               ~query.ok /\ HasRaised("InvalidRequest") /\ lookups = 0

\* search_anime got a uid next to a title and an unconvertible language, built the
\* UID query and raised InvalidRequest
C21_Witness ==
    /\ req.h = "search_anime"
    /\ DOMAIN req.args = {"uid", "anime", "language"}
    /\ req.args["anime"] = "naruto"
    /\ req.args["language"] = "klingon"
    /\ query.type = "UID"
    /\ HasRaised("InvalidRequest")

====
